---- MODULE Spec2Model ----
(***************************************************************************)
(* A model of create-rescript-config (src/create-rescript-config.js): one  *)
(* invocation of run() against a working directory.                        *)
(*                                                                         *)
(* JavaScript strings that the program computes on (typed answers, script  *)
(* names, paths) are sequences of one-character strings, so that trim(),   *)
(* path.join() and property lookup are computed as the code computes them. *)
(* Strings the program only stores and compares (script bodies, package    *)
(* names, version specs) are TLA+ strings; "" is the empty string.         *)
(***************************************************************************)
EXTENDS Integers, Sequences, FiniteSets, TLC

VARIABLES
    fs,                \* the working directory: path -> entry
    fs0,               \* the working directory as run() found it
    issued,            \* paths on which fs.writeFile / fs.mkdir has been called
    pc,                \* position of run()
    console,           \* lines on the terminal since the last console.clear()
    useYarn,           \* const useYarn            (line 336)
    startPackageJSON,  \* const startPackageJSON   (line 340), as loaded
    options,           \* the answers hash of prompt([...]) / const options
    error,             \* validation message shown under the current question
    bsConfig,          \* const bsConfig           (line 437)
    packageJson,       \* const packageJson        (line 438)
    proceed,           \* answer to 'Continue?'    (line 446)
    task,              \* state of each promise handed to Promise.all
    messages           \* value each of those promises resolved with

vars == <<fs, fs0, issued, pc, console, useYarn, startPackageJSON, options,
          error, bsConfig, packageJson, proceed, task, messages>>

----------------------------------------------------------------------------
(* Strings *)

SP == " "

RECURSIVE trimStart(_)
trimStart(s) ==
    IF s = <<>> THEN s
    ELSE IF Head(s) = SP THEN trimStart(Tail(s)) ELSE s

RECURSIVE trimEnd(_)
trimEnd(s) ==
    IF s = <<>> THEN s
    ELSE IF s[Len(s)] = SP THEN trimEnd(SubSeq(s, 1, Len(s) - 1)) ELSE s

\* String.prototype.trim
trim(s) == trimEnd(trimStart(s))

\* Words used by the working directories and the answers explored.
Test        == <<"t","e","s","t">>
ResBuild    == <<"r","e","s",":","b","u","i","l","d">>
ResWatch    == <<"r","e","s",":","w","a","t","c","h">>
ResClean    == <<"r","e","s",":","c","l","e","a","n">>
Constructor == <<"c","o","n","s","t","r","u","c","t","o","r">>
App         == <<"a","p","p">>
Demo        == <<"d","e","m","o">>
Src         == <<"s","r","c">>
IndexRes    == <<"I","n","d","e","x",".","r","e","s">>

BS_CONFIG    == <<"b","s","c","o","n","f","i","g",".","j","s","o","n">>
PACKAGE_JSON == <<"p","a","c","k","a","g","e",".","j","s","o","n">>
YARN_LOCK    == <<"y","a","r","n",".","l","o","c","k">>

RESCRIPT_PACKAGE     == "bs-platform"
REACT_PACKAGE        == "react"
REACT_DOM_PACKAGE    == "react-dom"
REASON_REACT_PACKAGE == "reason-react"

BuildScript == "bsb -make-world"
WatchScript == "bsb -make-world -w"
CleanScript == "bsb -clean-world"

----------------------------------------------------------------------------
(* JavaScript values and objects *)

EmptyObject == [k \in {} |-> ""]

Put(obj, k, v) == [x \in DOMAIN obj \cup {k} |-> IF x = k THEN v ELSE obj[x]]

\* Object.assign(a, b)
ObjectAssign(a, b) ==
    [x \in DOMAIN a \cup DOMAIN b |-> IF x \in DOMAIN b THEN b[x] ELSE a[x]]

\* Values JSON.parse can return.  An array or object carries its named
\* properties in props.
JNull          == [type |-> "null"]
JNumber        == [type |-> "number"]
JString        == [type |-> "string"]
JArray(props)  == [type |-> "array", props |-> props]
JObject(props) == [type |-> "object", props |-> props]

\* Property names every plain object inherits from Object.prototype, among
\* the names the answers explored can spell.
ObjectPrototypeKeys == {Constructor}

\* Truthiness of obj[key] for an object whose values are strings.
Truthy(obj, key) ==
    \/ key \in DOMAIN obj /\ obj[key] # ""
    \/ key \in ObjectPrototypeKeys

----------------------------------------------------------------------------
(* The file system *)

Cwd == <<"/">>

resolvePath(file) == Cwd \o file

\* path.join(dir, file)
pathJoin(dir, file) == dir \o <<"/">> \o file

\* What a file holds: no characters, characters that are not JSON, or the
\* JSON text of a value.
EmptyText    == [t |-> "empty"]
GarbageText  == [t |-> "garbage"]
JsonText(v)  == [t |-> "json", value |-> v]
Undefined    == [t |-> "undefined"]

File(text) == [kind |-> "file", text |-> text]
Dir        == [kind |-> "dir"]

\* readFile: the file's text, or undefined when reading fails.
readFile(fsys, file) ==
    LET p == resolvePath(file)
    IN  IF p \in DOMAIN fsys /\ fsys[p].kind = "file" THEN fsys[p].text
        ELSE Undefined

\* Boolean(x) for what readFile returns.
Boolean(x) == x.t \notin {"undefined", "empty"}

\* JSON.parse throws on undefined, on the empty string and on non-JSON text.
safeParse(input) ==
    IF input.t = "json" THEN input.value ELSE JObject(EmptyObject)

\* JSON.stringify(config, null, 2): an array's named properties and
\* properties holding undefined are not serialized.
JSONstringify(config) ==
    IF config.type = "array" THEN JsonText(JArray(EmptyObject))
    ELSE JsonText(config)

----------------------------------------------------------------------------
(* The Manifest Loader *)

ManifestFields == {"name", "scripts", "dependencies", "devDependencies"}

\* What a rejected promise of the run carries.
TypeError == [type |-> "TypeError"]

\* assignPackageJsonDefaults.  The file is in strict mode: reading a property
\* of null and creating a property on a number or a string both throw.
assignPackageJsonDefaults(config) ==
    IF config.type \notin {"object", "array"} THEN TypeError
    ELSE LET p == config.props
         IN  [config EXCEPT !.props =
                [f \in DOMAIN p \cup ManifestFields |->
                    CASE f = "name" ->
                           IF f \in DOMAIN p /\ p[f] # <<>> THEN p[f] ELSE <<>>
                      [] f \in ManifestFields \ {"name"} ->
                           IF f \in DOMAIN p THEN p[f] ELSE EmptyObject
                      [] OTHER -> p[f]]]

\* readPackageJSON().then(safeParse).then(assignPackageJsonDefaults)
loadPackageJson(fsys) ==
    assignPackageJsonDefaults(safeParse(readFile(fsys, PACKAGE_JSON)))

\* startPackageJSON.dependencies[pkg] as a condition
Installed(deps, pkg) == pkg \in DOMAIN deps /\ deps[pkg] # ""

rescriptAlreadyInstalled(pkg) ==
    \/ Installed(pkg.props.dependencies, RESCRIPT_PACKAGE)
    \/ Installed(pkg.props.devDependencies, RESCRIPT_PACKAGE)

----------------------------------------------------------------------------
(* The Prompt Session *)

Questions == <<"name", "src", "moduleType", "fileExtension", "addReact",
               "buildCommand", "watchCommand", "cleanCommand">>

moduleTypes    == <<"commonjs", "es6", "es6-global">>
moduleSuffixes == <<".bs.js", ".js", ".mjs", ".cjs">>

Accept == [ok |-> TRUE]
Reject(text, subject) == [ok |-> FALSE, text |-> text, subject |-> subject]
NoError == [text |-> "", subject |-> <<>>]

\* The prompt library hands the validator the typed line, or the question's
\* default when the line is empty.
Answered(line, default) == IF line = <<>> THEN default ELSE line

\* validate-npm-package-name's errors (not its warnings), for names made of
\* letters and spaces.
validateName(input) ==
    IF input = <<>>
    THEN Reject("name length must be greater than zero", input)
    ELSE IF trim(input) # input
    THEN Reject("name cannot contain leading or trailing spaces", input)
    ELSE IF \E i \in 1..Len(input) : input[i] = SP
    THEN Reject("name can only contain URL-friendly characters", input)
    ELSE Accept

\* validate of the 'src' question; false lets the library show its own text.
validateSrc(input) ==
    IF Len(trim(input)) > 0 THEN Accept ELSE Reject("Invalid input", input)

validateCommand(pkg, input) ==
    IF Truthy(pkg.props.scripts, input)
    THEN Reject("Script already exists, please pick another", input)
    ELSE IF Len(trim(input)) > 0 THEN Accept ELSE Reject("Invalid input", input)

\* default: startPackageJSON.scripts['res:build'] ? '' : 'res:build'
commandDefault(pkg, name) ==
    IF Truthy(pkg.props.scripts, name) THEN <<>> ELSE name

----------------------------------------------------------------------------
(* The Config Synthesizer *)

makeBsConfig(opts) ==
  JObject(
    [ name                 |-> opts.name,
      namespace            |-> TRUE,
      bs_dependencies      |-> IF opts.addReact THEN <<REASON_REACT_PACKAGE>>
                               ELSE <<>>,
      ppx_flags            |-> <<>>,
      sources              |-> <<[dir |-> opts.src, subdirs |-> TRUE]>>,
      package_specs        |-> [in_source |-> TRUE,
                                module    |-> opts.moduleType,
                                suffix    |-> opts.fileExtension],
      bsc_flags            |-> <<>>,
      bs_dev_dependencies  |-> <<>>,
      bs_external_includes |-> <<>>,
      ignored_dirs         |-> <<>>,
      pinned_dependencies  |-> <<>>,
      reason               |-> IF opts.addReact THEN <<[react_jsx |-> 3]>>
                               ELSE <<>> ])

makeVersionKeys(keys, version) == [k \in keys |-> version]

\* The objects setPackageJson pushes onto its dependencies list, in order;
\* fetched maps a package name to what fetchVersion resolved with.
dependencyObjects(config, opts, fetched) ==
    LET deps == config.props.dependencies
    IN  (IF opts.addReScript
         THEN <<makeVersionKeys({RESCRIPT_PACKAGE}, fetched[RESCRIPT_PACKAGE])>>
         ELSE <<>>)
        \o
        (IF opts.addReact /\ ~Installed(deps, REACT_PACKAGE)
         THEN <<makeVersionKeys({REACT_PACKAGE, REACT_DOM_PACKAGE},
                                fetched[REACT_PACKAGE])>>
         ELSE <<>>)
        \o
        (IF opts.addReact /\ ~Installed(deps, REASON_REACT_PACKAGE)
         THEN <<makeVersionKeys({REASON_REACT_PACKAGE},
                                fetched[REASON_REACT_PACKAGE])>>
         ELSE <<>>)

\* Array.prototype.reduce((a, b) => Object.assign(a, b), init)
RECURSIVE reduceAssign(_, _)
reduceAssign(objs, acc) ==
    IF objs = <<>> THEN acc
    ELSE reduceAssign(Tail(objs), ObjectAssign(acc, Head(objs)))

\* setPackageJson without the test of config.name: the answer always wins.
setPackageJson_NameOverwritten(config, opts, fetched) ==
    LET p       == config.props
        scripts == Put(Put(Put(p.scripts, opts.cleanCommand, CleanScript),
                           opts.buildCommand, BuildScript),
                       opts.watchCommand, WatchScript)
        deps    == reduceAssign(dependencyObjects(config, opts, fetched),
                                p.dependencies)
    IN  [config EXCEPT !.props =
            [f \in DOMAIN p |->
                CASE f = "name"         -> opts.name
                  [] f = "scripts"      -> scripts
                  [] f = "dependencies" -> deps
                  [] OTHER              -> p[f]]]

setPackageJson(config, opts, fetched) ==
    LET p       == config.props
        name    == IF p.name = <<>> THEN opts.name ELSE p.name
        scripts == Put(Put(Put(p.scripts, opts.cleanCommand, CleanScript),
                           opts.buildCommand, BuildScript),
                       opts.watchCommand, WatchScript)
        deps    == reduceAssign(dependencyObjects(config, opts, fetched),
                                p.dependencies)
    IN  [config EXCEPT !.props =
            [f \in DOMAIN p |->
                CASE f = "name"         -> name
                  [] f = "scripts"      -> scripts
                  [] f = "dependencies" -> deps
                  [] OTHER              -> p[f]]]

----------------------------------------------------------------------------
(* The Presenter *)

Line(kind) == [kind |-> kind]

\* resetConsole: console.clear(), then the banner.
resetConsole == <<Line("padding"), Line("banner"), Line("padding"), Line("blank")>>

AbortLine == [kind |-> "abort", file |-> BS_CONFIG]

makeWriteErrorMessage(path)   == <<[kind |-> "error", path |-> path]>>
makeWriteSuccessMessage(path) == <<[kind |-> "success", path |-> path]>>

\* The line under 'Now run:'.
instructionLine(yarn, opts) ==
    IF yarn
    THEN [kind |-> "instruction", install |-> "yarn", run |-> "yarn",
          script |-> opts.watchCommand]
    ELSE [kind |-> "instruction", install |-> "npm install", run |-> "npm run",
          script |-> opts.watchCommand]

----------------------------------------------------------------------------
(* Working directories and answers explored *)

ExistingVersion == "0.9.0"
Versions        == {"1.0.0", "latest"}
FetchedPackages == {RESCRIPT_PACKAGE, REACT_PACKAGE, REASON_REACT_PACKAGE}

\* Contents of package.json that parse to an object.
ManifestObjects ==
    << [name            |-> App,
        scripts         |-> (Test :> "jest"),
        devDependencies |-> (RESCRIPT_PACKAGE :> ExistingVersion)],
       [scripts         |-> (ResBuild :> "webpack"),
        dependencies    |-> (REACT_DOM_PACKAGE :> ExistingVersion)],
       [name            |-> App,
        scripts         |-> (Test :> "jest"),
        dependencies    |-> [k \in {RESCRIPT_PACKAGE, REACT_PACKAGE,
                                    REACT_DOM_PACKAGE, REASON_REACT_PACKAGE}
                               |-> ExistingVersion]],
       [dependencies    |-> (REACT_PACKAGE :> ExistingVersion)] >>

PackageFiles ==
    << GarbageText, JsonText(JNull), JsonText(JNumber), JsonText(JString),
       JsonText(JArray(EmptyObject)) >>
    \o [i \in 1..Len(ManifestObjects) |-> JsonText(JObject(ManifestObjects[i]))]

BsConfigFiles == << EmptyText, GarbageText, JsonText(JObject(EmptyObject)) >>

WithFile(fsys, file, text) == Put(fsys, resolvePath(file), File(text))
WithDir(fsys, dir)         == Put(fsys, resolvePath(dir), Dir)

EmptyDirectory == [p \in {} |-> Dir]

\* The working directories a run is started in: the empty directory, each
\* probed file or directory alone, and one directory holding several.
WorkingDirectories ==
    << EmptyDirectory,
       WithFile(EmptyDirectory, YARN_LOCK, GarbageText),
       WithDir(EmptyDirectory, Src),
       WithFile(EmptyDirectory, Src, GarbageText),
       WithDir(WithFile(WithFile(EmptyDirectory, YARN_LOCK, GarbageText),
                        PACKAGE_JSON, JsonText(JObject(ManifestObjects[1]))),
               Src) >>
    \o [i \in 1..Len(BsConfigFiles) |->
            WithFile(EmptyDirectory, BS_CONFIG, BsConfigFiles[i])]
    \o [i \in 1..Len(PackageFiles) |->
            WithFile(EmptyDirectory, PACKAGE_JSON, PackageFiles[i])]

\* Lines typed at the text questions; the empty line takes the default.
NameInputs    == {<<>>, Demo, <<SP>> \o Demo}
SrcInputs     == {<<>>, <<SP>>, Src \o <<SP>>}
CommandInputs == {<<>>, <<SP>>, Test, <<SP>> \o Test, Constructor}

\* Highest entry of a list question the user moves to.
MaxListIndex == 1

Min(a, b) == IF a < b THEN a ELSE b

----------------------------------------------------------------------------
(* run() *)

Tasks == {"pkg", "bs", "src"}

NotYet == [type |-> "undefined"]

Init ==
    /\ \E i \in 1..Len(WorkingDirectories) : fs = WorkingDirectories[i]
    /\ fs0 = fs
    /\ issued = {}
    /\ pc = "start"
    /\ console = <<>>
    /\ useYarn = FALSE
    /\ startPackageJSON = NotYet
    /\ options = EmptyObject
    /\ error = NoError
    /\ bsConfig = NotYet
    /\ packageJson = NotYet
    /\ proceed = "unasked"
    /\ task = [t \in Tasks |-> "idle"]
    /\ messages = [t \in Tasks |-> <<>>]

\* Lines 324-334: the banner, then the probe for bsconfig.json.
CheckBsConfig ==
    /\ pc = "start"
    /\ IF Boolean(readFile(fs, BS_CONFIG))
       THEN /\ console' = resetConsole \o <<AbortLine, Line("blank")>>
            /\ pc' = "aborted"
       ELSE /\ console' = resetConsole
            /\ pc' = "probeYarn"
    /\ UNCHANGED <<fs, fs0, issued, useYarn, startPackageJSON, options, error,
                   bsConfig, packageJson, proceed, task, messages>>

\* readFile(file): its .catch makes the promise fulfil whether or not the
\* file can be read.
readFilePromise(fsys, file) ==
    [state |-> "fulfilled", value |-> readFile(fsys, file)]

\* promise.then(() => true).catch(_e => false)
thenTrueCatchFalse(promise) == promise.state = "fulfilled"

\* Lines 336-338.
ProbeYarn ==
    /\ pc = "probeYarn"
    /\ useYarn' = thenTrueCatchFalse(readFilePromise(fs, YARN_LOCK))
    /\ pc' = "load"
    /\ UNCHANGED <<fs, fs0, issued, console, startPackageJSON, options, error,
                   bsConfig, packageJson, proceed, task, messages>>

\* Lines 340-342.  A throw in the chain rejects run()'s promise, which
\* nothing handles: the run ends there.
LoadManifest ==
    /\ pc = "load"
    /\ LET loaded == loadPackageJson(fs)
       IN  IF loaded.type = "TypeError"
           THEN /\ pc' = "crashed"
                /\ UNCHANGED startPackageJSON
           ELSE /\ pc' = "prompt"
                /\ startPackageJSON' = loaded
    /\ UNCHANGED <<fs, fs0, issued, console, useYarn, options, error,
                   bsConfig, packageJson, proceed, task, messages>>

\* The names of the first n questions.
Asked(n) == {Questions[i] : i \in 1..n}

\* One submission at question q: the validator's verdict either records the
\* answer and moves on, or shows its message and asks again.
Submit(q, input, verdict) ==
    /\ pc = "prompt"
    /\ DOMAIN options = Asked(q - 1)
    /\ IF verdict.ok
       THEN /\ options' = Put(options, Questions[q], input)
            /\ error' = NoError
            /\ pc' = IF q = Len(Questions) THEN "synthesize" ELSE "prompt"
       ELSE /\ options' = options
            /\ error' = [text |-> verdict.text, subject |-> verdict.subject]
            /\ pc' = pc
    /\ UNCHANGED <<fs, fs0, issued, console, useYarn, startPackageJSON,
                   bsConfig, packageJson, proceed, task, messages>>

AskName ==
    \E line \in NameInputs :
        LET input == Answered(line, startPackageJSON.props.name)
        IN  Submit(1, input, validateName(input))

AskSrc ==
    \E line \in SrcInputs :
        LET input == Answered(line, Src)
        IN  Submit(2, input, validateSrc(input))

AskModuleType ==
    \E i \in 1..Min(MaxListIndex, Len(moduleTypes)) :
        Submit(3, moduleTypes[i], Accept)

AskFileExtension ==
    \E i \in 1..Min(MaxListIndex, Len(moduleSuffixes)) :
        Submit(4, moduleSuffixes[i], Accept)

AskAddReact ==
    \E answer \in BOOLEAN : Submit(5, answer, Accept)

AskCommand(q, default) ==
    \E line \in CommandInputs :
        LET input == Answered(line, commandDefault(startPackageJSON, default))
        IN  Submit(q, input, validateCommand(startPackageJSON, input))

AskBuildCommand == AskCommand(6, ResBuild)
AskWatchCommand == AskCommand(7, ResWatch)
AskCleanCommand == AskCommand(8, ResClean)

\* Lines 430-435.
finishOptions(opts, pkg) ==
    [k \in DOMAIN opts \cup {"addReScript"} |->
        CASE k \in {"src", "name", "buildCommand", "watchCommand", "cleanCommand"}
               -> trim(opts[k])
          [] k = "addReScript" -> ~rescriptAlreadyInstalled(pkg)
          [] OTHER -> opts[k]]

\* Lines 430-444: the answers are trimmed, both configurations are computed
\* (each registry lookup resolving with some version), and the pending
\* manifest is shown.
Synthesize ==
    /\ pc = "synthesize"
    /\ \E fetched \in [FetchedPackages -> Versions] :
         LET opts == finishOptions(options, startPackageJSON)
             made == setPackageJson(startPackageJSON, opts, fetched)
         IN  /\ options' = opts
             /\ bsConfig' = makeBsConfig(opts)
             /\ packageJson' = made
             /\ console' = resetConsole \o
                   << [kind |-> "overwrite", file |-> PACKAGE_JSON],
                      Line("blank"),
                      [kind |-> "json", text |-> JSONstringify(made)] >>
    /\ pc' = "confirm"
    /\ UNCHANGED <<fs, fs0, issued, useYarn, startPackageJSON, error,
                   proceed, task, messages>>

\* Confirm without the test of the answer: the writes start either way.
Confirm_Ungated ==
    /\ pc = "confirm"
    /\ \E answer \in BOOLEAN :
         /\ proceed' = IF answer THEN "yes" ELSE "no"
         /\ console' = resetConsole
         /\ task' = [pkg |-> "writeFile", bs |-> "writeFile", src |-> "access"]
         /\ issued' = issued \cup {resolvePath(PACKAGE_JSON),
                                   resolvePath(BS_CONFIG)}
         /\ pc' = "writing"
    /\ UNCHANGED <<fs, fs0, useYarn, startPackageJSON, options, error,
                   bsConfig, packageJson, messages>>

\* Lines 446-458: 'Continue?'.  On yes the three promises are created one
\* after the other, which calls fs.writeFile twice and fs.access once.
Confirm ==
    /\ pc = "confirm"
    /\ \E answer \in BOOLEAN :
         IF answer
         THEN /\ proceed' = "yes"
              /\ console' = resetConsole
              /\ task' = [pkg |-> "writeFile", bs |-> "writeFile", src |-> "access"]
              /\ issued' = issued \cup {resolvePath(PACKAGE_JSON),
                                        resolvePath(BS_CONFIG)}
              /\ pc' = "writing"
         ELSE /\ proceed' = "no"
              /\ pc' = "declined"
              /\ UNCHANGED <<console, task, issued>>
    /\ UNCHANGED <<fs, fs0, useYarn, startPackageJSON, options, error,
                   bsConfig, packageJson, messages>>

----------------------------------------------------------------------------
(* The Writer *)

\* writeJson without its .catch: a failed write rejects the promise, so
\* Promise.all rejects and run() ends with it.
writeJson_NoCatch(t, file, config) ==
    /\ pc = "writing"
    /\ task[t] = "writeFile"
    /\ \E ok \in BOOLEAN :
         IF ok
         THEN /\ fs' = Put(fs, resolvePath(file), File(JSONstringify(config)))
              /\ messages' = [messages EXCEPT ![t] = makeWriteSuccessMessage(file)]
              /\ task' = [task EXCEPT ![t] = "settled"]
              /\ pc' = pc
         ELSE /\ fs' = fs
              /\ messages' = messages
              /\ task' = [task EXCEPT ![t] = "rejected"]
              /\ pc' = "crashed"
    /\ UNCHANGED <<fs0, issued, console, useYarn, startPackageJSON, options,
                   error, bsConfig, packageJson, proceed>>

\* writeJson: fs.writeFile settles, and the promise resolves with one
\* message either way.
writeJson(t, file, config) ==
    /\ pc = "writing"
    /\ task[t] = "writeFile"
    /\ \E ok \in BOOLEAN :
         IF ok
         THEN /\ fs' = Put(fs, resolvePath(file), File(JSONstringify(config)))
              /\ messages' = [messages EXCEPT ![t] = makeWriteSuccessMessage(file)]
         ELSE /\ fs' = fs
              /\ messages' = [messages EXCEPT ![t] = makeWriteErrorMessage(file)]
    /\ task' = [task EXCEPT ![t] = "settled"]
    /\ UNCHANGED <<fs0, issued, pc, console, useYarn, startPackageJSON, options,
                   error, bsConfig, packageJson, proceed>>

WritePackageJson == writeJson("pkg", PACKAGE_JSON, packageJson)
WriteBsConfig    == writeJson("bs", BS_CONFIG, bsConfig)

sourceDir == bsConfig.props.sources[1].dir

\* writeSrcDirectory, lines 279-287 and 305: fs.access settles.
SrcAccess ==
    /\ pc = "writing"
    /\ task["src"] = "access"
    /\ LET dir == resolvePath(sourceDir)
           directoryExists == dir \in DOMAIN fs
       IN  IF directoryExists
           THEN /\ task' = [task EXCEPT !["src"] = "settled"]
                /\ messages' = [messages EXCEPT !["src"] = <<>>]
                /\ UNCHANGED issued
           ELSE /\ task' = [task EXCEPT !["src"] = "mkdir"]
                /\ issued' = issued \cup {dir}
                /\ UNCHANGED messages
    /\ UNCHANGED <<fs, fs0, pc, console, useYarn, startPackageJSON, options,
                   error, bsConfig, packageJson, proceed>>

\* writeSrcDirectory, lines 294-302: fs.mkdir settles.
SrcMkdir ==
    /\ pc = "writing"
    /\ task["src"] = "mkdir"
    /\ LET dir == resolvePath(sourceDir)
       IN  \E ok \in BOOLEAN :
             IF ok
             THEN /\ fs' = Put(fs, dir, Dir)
                  /\ task' = [task EXCEPT !["src"] = "writeStarter"]
                  /\ issued' = issued \cup {pathJoin(dir, IndexRes)}
                  /\ UNCHANGED messages
             ELSE /\ task' = [task EXCEPT !["src"] = "settled"]
                  /\ messages' = [messages EXCEPT
                                    !["src"] = makeWriteErrorMessage(sourceDir)]
                  /\ UNCHANGED <<fs, issued>>
    /\ UNCHANGED <<fs0, pc, console, useYarn, startPackageJSON, options,
                   error, bsConfig, packageJson, proceed>>

\* writeSrcDirectory, lines 297-300: fs.writeFile of Index.res settles.
SrcWriteFile ==
    /\ pc = "writing"
    /\ task["src"] = "writeStarter"
    /\ LET dir  == resolvePath(sourceDir)
           name == sourceDir \o <<"/">> \o IndexRes
       IN  \E ok \in BOOLEAN :
             IF ok
             THEN /\ fs' = Put(fs, pathJoin(dir, IndexRes), File(GarbageText))
                  /\ messages' = [messages EXCEPT
                                    !["src"] = makeWriteSuccessMessage(name)]
             ELSE /\ fs' = fs
                  /\ messages' = [messages EXCEPT
                                    !["src"] = makeWriteErrorMessage(name)]
    /\ task' = [task EXCEPT !["src"] = "settled"]
    /\ UNCHANGED <<fs0, issued, pc, console, useYarn, startPackageJSON, options,
                   error, bsConfig, packageJson, proceed>>

\* Lines 454-472: Promise.all resolves once its three promises have, with
\* their values in the order given; the messages and the instruction follow.
Report ==
    /\ pc = "writing"
    /\ \A t \in Tasks : task[t] = "settled"
    /\ console' = console \o messages["pkg"] \o messages["bs"] \o messages["src"]
                      \o << Line("blank"), Line("now run"), Line("blank"),
                            instructionLine(useYarn, options), Line("blank") >>
    /\ pc' = "done"
    /\ UNCHANGED <<fs, fs0, issued, useYarn, startPackageJSON, options, error,
                   bsConfig, packageJson, proceed, task, messages>>

Next ==
    \/ CheckBsConfig
    \/ ProbeYarn
    \/ LoadManifest
    \/ AskName
    \/ AskSrc
    \/ AskModuleType
    \/ AskFileExtension
    \/ AskAddReact
    \/ AskBuildCommand
    \/ AskWatchCommand
    \/ AskCleanCommand
    \/ Synthesize
    \/ Confirm
    \/ WritePackageJson
    \/ WriteBsConfig
    \/ SrcAccess
    \/ SrcMkdir
    \/ SrcWriteFile
    \/ Report

Spec == Init /\ [][Next]_vars

\* The event loop runs every settled promise's continuation, and every
\* file-system call settles.
FairSpec ==
    /\ Spec
    /\ WF_vars(WritePackageJson)
    /\ WF_vars(WriteBsConfig)
    /\ WF_vars(SrcAccess)
    /\ WF_vars(SrcMkdir)
    /\ WF_vars(SrcWriteFile)
    /\ WF_vars(Report)

----------------------------------------------------------------------------
(* Properties *)

Loaded      == pc \in {"prompt", "synthesize", "confirm", "declined", "writing", "done"}
Synthesized == pc \in {"confirm", "declined", "writing", "done"}

Exists(fsys, file) == resolvePath(file) \in DOMAIN fsys

loadedScripts == startPackageJSON.props.scripts
loadedDeps    == startPackageJSON.props.dependencies
loadedDevDeps == startPackageJSON.props.devDependencies

commandNames ==
    {options.buildCommand, options.watchCommand, options.cleanCommand}

\* The packages whose version setPackageJson assigns.
addedPackages ==
    LET objs == dependencyObjects(startPackageJSON, options,
                                  [p \in FetchedPackages |-> "latest"])
    IN  UNION {DOMAIN objs[i] : i \in 1..Len(objs)}

\* The line printed under 'Now run:'.
printedInstruction == console[Len(console) - 1]

\* C1: none of the three trimmed command names handed to the synthesizer is
\* a key of the loaded manifest's scripts, and every script of the loaded
\* manifest keeps its value in the synthesized manifest.
C1_CommandsNeverCollide ==
    Synthesized =>
        /\ \A c \in commandNames : c \notin DOMAIN loadedScripts
        /\ \A k \in DOMAIN loadedScripts :
              packageJson.props.scripts[k] = loadedScripts[k]

\* C2: after all eight questions are answered, the synthesized manifest has
\* the build, watch and clean invocations under the three supplied names,
\* all at once.
C2_ThreeScripts ==
    Synthesized =>
        /\ packageJson.props.scripts[options.buildCommand] = BuildScript
        /\ packageJson.props.scripts[options.watchCommand] = WatchScript
        /\ packageJson.props.scripts[options.cleanCommand] = CleanScript

\* C3: loading never raises, whatever package.json holds, and yields a
\* record with name, scripts, dependencies and devDependencies present; an
\* absent or malformed file loads as the empty record with its defaults.
C3_LoaderNeverRaises ==
    /\ pc # "crashed"
    /\ Loaded =>
          /\ ManifestFields \subseteq DOMAIN startPackageJSON.props
          /\ readFile(fs0, PACKAGE_JSON).t # "json" =>
                startPackageJSON = assignPackageJsonDefaults(JObject(EmptyObject))

\* C4: when bsconfig.json exists at the start of a run, whatever it holds,
\* the run prints the abort message and ends: no question is asked, nothing
\* is written, and the file is left as it was.
C4_ExistingConfigAborts ==
    (Exists(fs0, BS_CONFIG) /\ pc # "start") =>
        /\ pc = "aborted"
        /\ \E i \in 1..Len(console) : console[i].kind = "abort"
        /\ options = EmptyObject
        /\ issued = {}
        /\ fs = fs0

\* C5: the final instruction uses yarn's verbs if and only if yarn.lock is
\* in the working directory, and npm's verbs otherwise.
C5_YarnIffLockfile ==
    pc = "done" =>
        IF Exists(fs0, YARN_LOCK)
        THEN printedInstruction.install = "yarn" /\ printedInstruction.run = "yarn"
        ELSE /\ printedInstruction.install = "npm install"
             /\ printedInstruction.run = "npm run"

\* C6: the final instruction has an install segment if and only if the set
\* of packages to install is not empty; with an empty set it is the run verb
\* and the watch command alone.
C6_InstallOnlyWhenNeeded ==
    pc = "done" =>
        /\ printedInstruction.script = options.watchCommand
        /\ (addedPackages = {}) <=> (printedInstruction.install = "")

\* C7: the packages the synthesizer adds are bs-platform iff it is in
\* neither dependencies nor devDependencies and, when React is asked for,
\* each of react, react-dom and reason-react iff that package is not in
\* dependencies; none of the three when React is not asked for.
C7_AddedPackages ==
    Synthesized =>
        addedPackages =
            {p \in {RESCRIPT_PACKAGE} :
                p \notin DOMAIN loadedDeps /\ p \notin DOMAIN loadedDevDeps}
            \cup
            {p \in {REACT_PACKAGE, REACT_DOM_PACKAGE, REASON_REACT_PACKAGE} :
                options.addReact /\ p \notin DOMAIN loadedDeps}

\* C8: every package of the loaded manifest's dependencies keeps its version
\* in the synthesized manifest, and devDependencies is unchanged, whatever
\* the answers and the registry's replies.
C8_DependenciesKept ==
    Synthesized =>
        /\ \A k \in DOMAIN loadedDeps :
              packageJson.props.dependencies[k] = loadedDeps[k]
        /\ packageJson.props.devDependencies = loadedDevDeps

Reported ==
    \E i \in 1..Len(console) : console[i].kind \in {"success", "error", "instruction"}

\* The path a task reports on.
ownPaths(t) ==
    CASE t = "pkg" -> {PACKAGE_JSON}
      [] t = "bs"  -> {BS_CONFIG}
      [] t = "src" -> {sourceDir, sourceDir \o <<"/">> \o IndexRes}

\* What a task has done to the working directory, given its outcome.
OutcomeMatchesDisk(t) ==
    LET ok == messages[t] # <<>> /\ messages[t][1].kind = "success"
        unchanged(p) == IF p \in DOMAIN fs0 THEN p \in DOMAIN fs /\ fs[p] = fs0[p]
                        ELSE p \notin DOMAIN fs
    IN  CASE t = "pkg" ->
               IF ok THEN fs[resolvePath(PACKAGE_JSON)] = File(JSONstringify(packageJson))
               ELSE unchanged(resolvePath(PACKAGE_JSON))
          [] t = "bs" ->
               IF ok THEN fs[resolvePath(BS_CONFIG)] = File(JSONstringify(bsConfig))
               ELSE unchanged(resolvePath(BS_CONFIG))
          [] t = "src" ->
               IF ok THEN pathJoin(resolvePath(sourceDir), IndexRes) \in DOMAIN fs
               ELSE pathJoin(resolvePath(sourceDir), IndexRes) \notin DOMAIN fs

C9_Safe ==
    /\ proceed = "yes" =>
          /\ pc \in {"writing", "done"}
          /\ \A t \in Tasks : task[t] # "idle"
    /\ Reported => \A t \in Tasks : task[t] = "settled"
    /\ \A t \in Tasks : task[t] = "settled" =>
          /\ Len(messages[t]) <= 1
          /\ t # "src" => Len(messages[t]) = 1
          /\ \A i \in 1..Len(messages[t]) : messages[t][i].path \in ownPaths(t)
          /\ OutcomeMatchesDisk(t)
    /\ pc = "done" =>
          /\ printedInstruction.kind = "instruction"
          /\ SubSeq(console, Len(resetConsole) + 1, Len(console) - 5)
                = messages["pkg"] \o messages["bs"] \o messages["src"]

\* C9: once the user confirms, all three writer tasks are started; outcomes
\* are printed only after all three have settled; each settled task reports
\* on its own path only, Success exactly when its own write took effect and
\* Failure when it did not, whatever the other two did; and the run goes on
\* to print the final instruction.
C9_WriterTasksIndependent ==
    /\ []C9_Safe
    /\ (proceed = "yes") ~> (pc = "done" /\ printedInstruction.kind = "instruction")

\* A run in which the manifest write failed while the other two succeeded.
C9_Witness ==
    /\ pc = "done"
    /\ messages["pkg"][1].kind = "error"
    /\ messages["bs"][1].kind = "success"
    /\ messages["src"] # <<>> /\ messages["src"][1].kind = "success"

\* C10: nothing is written or created before 'Continue?' is answered yes;
\* 'Continue?' is asked only once all eight questions are answered and the
\* pending manifest is on the screen; and a run that is declined has ended
\* with nothing written.
C10_ConfirmationGatesWrites ==
    /\ (issued # {} \/ fs # fs0 \/ \E t \in Tasks : task[t] # "idle")
          => proceed = "yes"
    /\ (pc = "confirm" \/ proceed # "unasked") =>
          Asked(Len(Questions)) \subseteq DOMAIN options
    /\ pc = "confirm" =>
          \E i \in 1..Len(console) :
              /\ console[i].kind = "json"
              /\ console[i].text = JSONstringify(packageJson)
    /\ proceed = "no" =>
          /\ pc = "declined"
          /\ issued = {}
          /\ fs = fs0
          /\ ~ENABLED Next

\* A confirmed run that has written to the working directory.
C10_Witness ==
    /\ pc = "writing"
    /\ proceed = "yes"
    /\ fs # fs0

commandQuestions == {"buildCommand", "watchCommand", "cleanCommand"}

\* A command question is the one being asked.
AtCommandQuestion ==
    /\ pc = "prompt"
    /\ Asked(5) \subseteq DOMAIN options

\* C11: at each command question, an input that is a key of the loaded
\* manifest's scripts is rejected with 'Script "<input>" already exists,
\* please pick another'; an input that is empty once trimmed is rejected;
\* any other input is accepted; and the question is left only with an answer
\* that is neither.
C11_CommandValidation ==
    /\ (AtCommandQuestion /\ error # NoError) =>
          IF error.subject \in DOMAIN loadedScripts
          THEN error.text = "Script already exists, please pick another"
          ELSE trim(error.subject) = <<>>
    /\ pc \in {"prompt", "synthesize"} =>
          \A q \in commandQuestions \cap DOMAIN options :
              /\ options[q] \notin DOMAIN loadedScripts
              /\ trim(options[q]) # <<>>

\* C12: the synthesized manifest keeps the loaded manifest's name when that
\* name is not empty, whatever was answered at the name question, and takes
\* the trimmed answer when it is empty.
C12_NameKeptOrAnswered ==
    Synthesized =>
        packageJson.props.name =
            IF startPackageJSON.props.name # <<>>
            THEN startPackageJSON.props.name
            ELSE options.name

\* A manifest named 'app' synthesized after 'demo' was answered.
C12_Witness ==
    /\ Synthesized
    /\ startPackageJSON.props.name = App
    /\ options.name = Demo
    /\ packageJson.props.name = App

\* The outcomes the Writer yielded, as printed between the banner and the
\* closing instruction.
writeOutcomes == SubSeq(console, Len(resetConsole) + 1, Len(console) - 5)

\* p is dir or lies under it.
Under(p, dir) ==
    /\ Len(p) >= Len(dir)
    /\ SubSeq(p, 1, Len(dir)) = dir
    /\ Len(p) > Len(dir) => p[Len(dir) + 1] = "/"

\* The configured source directory was a directory when the Writer ran.
sourceDirectoryExisted ==
    /\ resolvePath(sourceDir) \in DOMAIN fs0
    /\ fs0[resolvePath(sourceDir)] = Dir

\* C13: the starter source file is attempted exactly when the configured
\* source directory did not exist when the Writer ran. If the directory
\* existed, the Writer yields exactly two outcomes (manifest, build config),
\* issues no write at or under the directory, leaves everything at or under
\* it as it was and reports nothing for it; if it did not exist, the Writer
\* yields exactly three outcomes, the third a Success or a Failure for the
\* directory or the starter file.
C13_StarterIffDirectoryAbsent ==
    pc = "done" =>
        LET dir == resolvePath(sourceDir)
        IN  IF sourceDirectoryExisted
            THEN /\ Len(writeOutcomes) = 2
                 /\ writeOutcomes[1].path = PACKAGE_JSON
                 /\ writeOutcomes[2].path = BS_CONFIG
                 /\ \A p \in issued : ~Under(p, dir)
                 /\ \A p \in DOMAIN fs \cup DOMAIN fs0 :
                       Under(p, dir) =>
                           p \in DOMAIN fs0 /\ p \in DOMAIN fs /\ fs[p] = fs0[p]
            ELSE /\ Len(writeOutcomes) = 3
                 /\ writeOutcomes[3].kind \in {"success", "error"}
                 /\ writeOutcomes[3].path \in ownPaths("src")
                 /\ dir \in issued

====
